---- MODULE Spec2Model ----
(***************************************************************************)
(* Model of apps/api/app/api/routes/multifile.py: the four request         *)
(* handlers of the /multifile router (analyze, join, merge, reference),    *)
(* the access guard (validate_files_access) and the collection loader      *)
(* (load_file_collection).                                                 *)
(*                                                                         *)
(* One request is followed from its arrival to its response.  The storage  *)
(* lookup, the table loader and the engine are collaborators whose code is *)
(* outside the router: each of their calls is a nondeterministic choice    *)
(* over the outcomes the interface allows (a value or a raised exception). *)
(*                                                                         *)
(* Python values: Optional[T] is a sequence of length <= 1 (None == <<>>), *)
(* a list is a sequence, a dict is a function (or a sequence of entries    *)
(* where the iteration order matters).  The Chinese message literals of    *)
(* the source are written in English, one distinct string per literal.     *)
(***************************************************************************)
EXTENDS Integers, Sequences, FiniteSets, TLC

VARIABLES db, pc, request, response, calls, resolved, raised, handed, result, schemas

vars == <<db, pc, request, response, calls, resolved, raised, handed, result, schemas>>

(* ------------------------------ bounds --------------------------------- *)

\* longest file_ids / tables list of a request
MaxIds == 3
\* longest condition list of a join request
MaxConds == 2
\* longest error list of an ExecutionResult
MaxErrors == 2

(* --------------------------- Python values ----------------------------- *)

None == <<>>
Some(x) == <<x>>

SeqsUpTo(S, n) == UNION {[1..k -> S] : k \in 0..n}

Perms(S) == {p \in [1..Cardinality(S) -> S] : \A i, j \in DOMAIN p : i # j => p[i] # p[j]}

Range(s) == {s[i] : i \in DOMAIN s}

\* raise HTTPException(status_code=..., detail=...)
HTTPException(status_code, detail) ==
    [type |-> "HTTPException", status_code |-> status_code, detail |-> detail]

\* any other exception class, with its message
PyException(type, message) ==
    [type |-> type, status_code |-> 0, detail |-> message]

\* str(e): Starlette's HTTPException prints "<status_code>: <detail>", the
\* other exceptions print their message
StrExc(e) ==
    IF e.type = "HTTPException"
    THEN ToString(e.status_code) \o ": " \o e.detail
    ELSE e.detail

\* sep.join(items)
RECURSIVE StrJoin(_, _)
StrJoin(sep, items) ==
    IF items = <<>> THEN ""
    ELSE IF Len(items) = 1 THEN items[1]
    ELSE items[1] \o sep \o StrJoin(sep, Tail(items))

(* ------------------------------ storage -------------------------------- *)

Users == {"u1", "u2"}

\* the caller of the request (current_user.id)
current_user == "u1"

\* the files the storage holds, by canonical id
FileIds == {"f1", "f2", "f3"}

Filename(id) == CASE id = "f1" -> "a.xlsx" [] id = "f2" -> "b.xlsx" [] OTHER -> "c.xlsx"

\* raw identifier strings a request can carry: canonical spellings, an upper
\* case spelling of f1, a well formed id of no stored file, a malformed string
RawIds == {"f1", "F1", "f2", "f3", "f9", "zz"}

\* UUID(fid) raises ValueError on a string that is no UUID
WellFormed(fid) == fid # "zz"

\* UUID(fid): hexadecimal digits are read case-insensitively
UUID(fid) == IF fid = "F1" THEN "f1" ELSE fid

FileRow(id) == [id |-> id, user_id |-> db[id], filename |-> Filename(id)]

\* get_files_by_ids_from_db(file_ids, db): the rows of the requested ids, in
\* the order the storage returns them; an id of no stored file fails
\* NotFound or is absent from the rows
get_files_by_ids_from_db(file_ids) ==
    LET wanted == Range(file_ids)
        rows   == {[exc |-> None, files |-> [i \in DOMAIN p |-> FileRow(p[i])]] :
                      p \in Perms(wanted \cap FileIds)}
    IN  IF wanted \subseteq FileIds
        THEN rows
        ELSE rows \cup {[exc |-> Some(PyException("NotFound", "file not found")), files |-> <<>>]}

(* ------------------------------- loader -------------------------------- *)

Sheet(name, columns) == [name |-> name, columns |-> columns]

\* what the parser can find in a stored file: its sheets in order, each with
\* its column names in column-key order (a name may repeat)
Shapes ==
    { <<Sheet("s1", <<"id", "name">>)>>,
      <<Sheet("s1", <<"id", "name", "id">>), Sheet("s2", <<"id", "qty">>)>>,
      <<Sheet("s1", <<"qty">>)>>,
      <<Sheet("s1", <<"x">>)>> }

\* load_tables_from_files(files): a FileCollection with one entry per file,
\* in the order of files, or a failure of the load
load_tables_from_files(files) ==
    {[exc |-> None,
      coll |-> [i \in DOMAIN files |->
                  [file_id |-> files[i].id, filename |-> files[i].filename, sheets |-> sh[i]]]] :
        sh \in [DOMAIN files -> Shapes]}
    \cup {[exc |-> Some(PyException("Exception", "load failed")), coll |-> <<>>]}

(* ---------------------------- access guard ----------------------------- *)

\* detail of the 403 raised for a file
NoAccessDetail(filename) == "no access to file: " \o filename

\* a plausible slip: the loop goes on and the last violation is reported
CheckOwnersLast(files, user_id) ==
    LET bad == {i \in DOMAIN files : files[i].user_id # user_id}
    IN  IF bad = {}
        THEN [exc |-> None, files |-> files]
        ELSE LET last == CHOOSE i \in bad : \A j \in bad : i >= j
             IN  [exc |-> Some(HTTPException(403, NoAccessDetail(files[last].filename))),
                  files |-> <<>>]

\* the loop of validate_files_access: the first file whose owner is not the
\* caller raises 403 with its filename
CheckOwners(files, user_id) ==
    LET bad == {i \in DOMAIN files : files[i].user_id # user_id}
    IN  IF bad = {}
        THEN [exc |-> None, files |-> files]
        ELSE LET first == CHOOSE i \in bad : \A j \in bad : i <= j
             IN  [exc |-> Some(HTTPException(403, NoAccessDetail(files[first].filename))),
                  files |-> <<>>]

\* validate_files_access(file_ids, user_id, db): the outcomes, each with the
\* rows the storage returned
validate_files_access(file_ids, user_id) ==
    {IF ro.exc # None
     THEN [exc |-> ro.exc, files |-> <<>>, rows |-> None]
     ELSE LET checked == CheckOwners(ro.files, user_id)
          IN  [exc |-> checked.exc, files |-> checked.files, rows |-> Some(ro.files)] :
        ro \in get_files_by_ids_from_db(file_ids)}

\* the outcome of load_file_collection: the exception it raised (or None),
\* the collaborator calls it made, the rows resolved, the collection
LoadOutcome(exc, made, rows, coll) ==
    [exc |-> exc, calls |-> made, rows |-> rows, coll |-> coll]

LoadAfterGuard(v) ==
    IF v.exc # None
    THEN {LoadOutcome(v.exc, <<"get_files_by_ids_from_db">>, v.rows, <<>>)}
    ELSE {LoadOutcome(lo.exc, <<"get_files_by_ids_from_db", "load_tables_from_files">>,
                      v.rows, lo.coll) : lo \in load_tables_from_files(v.files)}

\* load_file_collection(file_ids, user_id, db)
load_file_collection(file_ids, user_id) ==
    IF \E i \in DOMAIN file_ids : ~WellFormed(file_ids[i])
    THEN {LoadOutcome(Some(HTTPException(400, "invalid file_id format: badly formed UUID string")),
                      <<>>, None, <<>>)}
    ELSE UNION {LoadAfterGuard(v) :
                  v \in validate_files_access([i \in DOMAIN file_ids |-> UUID(file_ids[i])], user_id)}

\* join, merge and reference hand the collection to the Executor unread
Unread(outcomes) == {LoadOutcome(o.exc, o.calls, o.rows, <<>>) : o \in outcomes}

(* ------------------------------- engine -------------------------------- *)

ErrorMessages == {"e1", "e2"}

\* a result table: len(result_data), and len(result_data.columns) when the
\* object has a columns attribute
Table(rows, cols, hasColumns) == [rows |-> rows, cols |-> cols, hasColumns |-> hasColumns]

NoSheets == [f \in {} |-> <<>>]

\* new_sheets of an ExecutionResult: file id -> sheet name -> table
NewSheetsChoices ==
    { NoSheets,
      "f1" :> ("out" :> Table(2, 3, TRUE)),
      "f1" :> ("tmp" :> Table(2, 3, TRUE)),
      "f2" :> ("out" :> Table(1, 0, FALSE)) }

FormulaChoices == { <<>>, <<"=A1", "=B1">> }

ExecutionResult(errors, new_sheets, excel_formulas) ==
    [errors |-> errors, new_sheets |-> new_sheets, excel_formulas |-> excel_formulas]

\* ExecutionResult.has_errors()
has_errors(r) == Len(r.errors) > 0

\* Executor(file_collection).execute(operations): any ExecutionResult, or a
\* failure of the engine
Executor_execute(operations) ==
    {[exc |-> None, result |-> Some(ExecutionResult(e, n, f))] :
        e \in SeqsUpTo(ErrorMessages, MaxErrors), n \in NewSheetsChoices, f \in FormulaChoices}
    \cup {[exc |-> Some(PyException("Exception", "engine failure")), result |-> None]}

(* ------------------------------ responses ------------------------------ *)

\* return ApiResponse(code=..., data=..., msg=...); code and msg are None
\* where the handler leaves them to their defaults
ApiResponse(code, data, msg) == [kind |-> "envelope", code |-> code, data |-> data, msg |-> msg]

\* an HTTPException that leaves the handler
Thrown(e) == [kind |-> "thrown", status_code |-> e.status_code, detail |-> e.detail]

\* JoinResult / MergeResult
OpResult(success, output_file_id, output_sheet_name, row_count, column_count, error) ==
    [success |-> success, output_file_id |-> output_file_id,
     output_sheet_name |-> output_sheet_name, row_count |-> row_count,
     column_count |-> column_count, error |-> error]

CrossReferenceResult(success, target_file_id, target_sheet_name, target_column, formula, error) ==
    [success |-> success, target_file_id |-> target_file_id,
     target_sheet_name |-> target_sheet_name, target_column |-> target_column,
     formula |-> formula, error |-> error]

\* the lookup of the output table in result.new_sheets
OutputCounts(new_sheets, output_file_id, output_sheet_name) ==
    IF /\ output_file_id \in DOMAIN new_sheets
       /\ output_sheet_name \in DOMAIN new_sheets[output_file_id]
    THEN LET result_data == new_sheets[output_file_id][output_sheet_name]
         IN  [row_count |-> result_data.rows,
              column_count |-> IF result_data.hasColumns THEN result_data.cols ELSE 0]
    ELSE [row_count |-> 0, column_count |-> 0]

(* -------------------------------- join --------------------------------- *)

JoinCondition(cond) ==
    [left_column |-> cond.left_column, right_column |-> cond.right_column,
     operator |-> cond.operator]

NewSheet(name) == [type |-> "new_sheet", name |-> name]

\* the JoinOperation join_files builds from the request
JoinOperation(req) ==
    [kind |-> "join",
     left_file_id |-> req.left_file_id, left_table |-> req.left_table,
     right_file_id |-> req.right_file_id, right_table |-> req.right_table,
     join_type |-> req.join_type,
     conditions |-> [i \in DOMAIN req.conditions |-> JoinCondition(req.conditions[i])],
     output |-> NewSheet(req.output_sheet_name)]

\* the except clause of join_files
JoinExcept(e) ==
    ApiResponse(Some(500), OpResult(FALSE, None, None, None, None, Some(StrExc(e))),
                Some("join operation failed"))

\* a plausible slip: the output table is indexed without the membership
\* test, and the KeyError of a missing key lands in the except clause
JoinNormalizeKeyError(req, r) ==
    IF has_errors(r)
    THEN ApiResponse(Some(400),
                     OpResult(FALSE, None, None, None, None, Some(StrJoin("; ", r.errors))),
                     Some("join operation failed"))
    ELSE IF /\ req.left_file_id \in DOMAIN r.new_sheets
            /\ req.output_sheet_name \in DOMAIN r.new_sheets[req.left_file_id]
    THEN LET counts == OutputCounts(r.new_sheets, req.left_file_id, req.output_sheet_name)
         IN  ApiResponse(None,
                         OpResult(TRUE, Some(req.left_file_id), Some(req.output_sheet_name),
                                  Some(counts.row_count), Some(counts.column_count), None),
                         None)
    ELSE JoinExcept(PyException("KeyError", req.output_sheet_name))

\* join_files after executor.execute returned
JoinNormalize(req, r) ==
    IF has_errors(r)
    THEN ApiResponse(Some(400),
                     OpResult(FALSE, None, None, None, None, Some(StrJoin("; ", r.errors))),
                     Some("join operation failed"))
    ELSE LET output_file_id == req.left_file_id
             output_sheet_name == req.output_sheet_name
             counts == OutputCounts(r.new_sheets, output_file_id, output_sheet_name)
         IN  ApiResponse(None,
                         OpResult(TRUE, Some(output_file_id), Some(output_sheet_name),
                                  Some(counts.row_count), Some(counts.column_count), None),
                         None)


(* -------------------------------- merge -------------------------------- *)

\* the two parameter-error messages of merge_files
LengthMismatchMessage == "file_ids and tables must have the same length"
MinimumFilesMessage == "at least 2 files are needed to merge"

\* a plausible slip: the length comparison is missing
MergeValidateNoLength(req) ==
    IF Len(req.file_ids) < 2 THEN Some(MinimumFilesMessage) ELSE None

\* a plausible slip: the minimum is off by one
MergeValidateOffByOne(req) ==
    IF Len(req.file_ids) # Len(req.tables)
    THEN Some(LengthMismatchMessage)
    ELSE IF Len(req.file_ids) < 1
    THEN Some(MinimumFilesMessage)
    ELSE None

\* the parameter checks of merge_files: the message of the first check that
\* fails, or None
MergeValidate(req) ==
    IF Len(req.file_ids) # Len(req.tables)
    THEN Some(LengthMismatchMessage)
    ELSE IF Len(req.file_ids) < 2
    THEN Some(MinimumFilesMessage)
    ELSE None

\* the MergeOperation merge_files builds from the request
MergeOperation(req) ==
    [kind |-> "merge", file_ids |-> req.file_ids, tables |-> req.tables,
     merge_type |-> req.merge_type, output |-> NewSheet(req.output_sheet_name)]

\* a plausible slip: the output table is looked up before the errors
MergeNormalizeSheetsFirst(req, r) ==
    IF /\ req.file_ids[1] \in DOMAIN r.new_sheets
       /\ req.output_sheet_name \in DOMAIN r.new_sheets[req.file_ids[1]]
    THEN LET counts == OutputCounts(r.new_sheets, req.file_ids[1], req.output_sheet_name)
         IN  ApiResponse(None,
                         OpResult(TRUE, Some(req.file_ids[1]), Some(req.output_sheet_name),
                                  Some(counts.row_count), Some(counts.column_count), None),
                         None)
    ELSE ApiResponse(Some(400),
                     OpResult(FALSE, None, None, None, None, Some(StrJoin("; ", r.errors))),
                     Some("merge operation failed"))

\* merge_files after executor.execute returned
MergeNormalize(req, r) ==
    IF has_errors(r)
    THEN ApiResponse(Some(400),
                     OpResult(FALSE, None, None, None, None, Some(StrJoin("; ", r.errors))),
                     Some("merge operation failed"))
    ELSE LET output_file_id == req.file_ids[1]
             output_sheet_name == req.output_sheet_name
             counts == OutputCounts(r.new_sheets, output_file_id, output_sheet_name)
         IN  ApiResponse(None,
                         OpResult(TRUE, Some(output_file_id), Some(output_sheet_name),
                                  Some(counts.row_count), Some(counts.column_count), None),
                         None)

\* the except clause of merge_files
MergeExcept(e) ==
    ApiResponse(Some(500), OpResult(FALSE, None, None, None, None, Some(StrExc(e))),
                Some("merge operation failed"))

\* the response to a request that fails a parameter check
MergeInvalid(message) ==
    ApiResponse(Some(400), OpResult(FALSE, None, None, None, None, Some(message)),
                Some("parameter error"))

(* ------------------------------ reference ------------------------------ *)

\* the bare string "in_place" (the other outputs are dicts)
InPlace == [str |-> "in_place"]

\* Python's truth value of an Optional[str]
Truthy(opt) == opt # None /\ opt[1] # ""

\* output_type of cross_file_reference
ReferenceOutput(req) ==
    IF Truthy(req.output_sheet_name)
    THEN NewSheet(req.output_sheet_name[1])
    ELSE InPlace

\* the CrossFileReferenceOperation cross_file_reference builds
CrossFileReferenceOperation(req) ==
    [kind |-> "reference",
     source_file_id |-> req.source_file_id, source_table |-> req.source_table,
     source_column |-> req.source_column,
     target_file_id |-> req.target_file_id, target_table |-> req.target_table,
     target_column |-> req.target_column,
     reference_type |-> req.reference_type,
     output |-> ReferenceOutput(req)]

\* cross_file_reference after executor.execute returned
ReferenceNormalize(req, r) ==
    IF has_errors(r)
    THEN ApiResponse(Some(400),
                     CrossReferenceResult(FALSE, None, None, None, None,
                                          Some(StrJoin("; ", r.errors))),
                     Some("reference operation failed"))
    ELSE LET formula == IF req.reference_type = "formula" /\ r.excel_formulas # <<>>
                        THEN Some(r.excel_formulas[1])
                        ELSE None
         IN  ApiResponse(None,
                         CrossReferenceResult(TRUE, Some(req.target_file_id),
                                              Some(req.target_table), Some(req.target_column),
                                              formula, None),
                         None)

\* the except clause of cross_file_reference
ReferenceExcept(e) ==
    ApiResponse(Some(500), CrossReferenceResult(FALSE, None, None, None, None, Some(StrExc(e))),
                Some("reference operation failed"))

(* ------------------------------- analyze ------------------------------- *)

\* file_schemas: per file of the schema mapping, its sheets with their column
\* names in column-key order
FileSchemas(coll) ==
    [i \in DOMAIN coll |->
        [file_id |-> coll[i].file_id, filename |-> coll[i].filename,
         sheets |-> [k \in DOMAIN coll[i].sheets |->
                        Sheet(coll[i].sheets[k].name, coll[i].sheets[k].columns)]]]

RelationshipInfo(source_file, source_sheet, source_column, target_file, target_sheet, target_column, relationship_type) ==
    [source_file |-> source_file, source_sheet |-> source_sheet,
     source_column |-> source_column, target_file |-> target_file,
     target_sheet |-> target_sheet, target_column |-> target_column,
     relationship_type |-> relationship_type]

\* what the loops have appended so far
Appended(relationships, suggestions) ==
    [relationships |-> relationships, suggestions |-> suggestions]

\* the runs of A followed by the runs of B
Then(A, B) ==
    {Appended(a.relationships \o b.relationships, a.suggestions \o b.suggestions) :
        a \in A, b \in B}

\* a plausible slip: union in place of intersection
CommonColsUnion(table1, table2) == Range(table1.columns) \cup Range(table2.columns)

\* common_cols = set(table1.get_columns()).intersection(set(table2.get_columns()))
CommonCols(table1, table2) == Range(table1.columns) \cap Range(table2.columns)

\* for col in common_cols: a set is iterated in an order the program does
\* not fix
ColumnLoop(file1, sheet1, file2, sheet2) ==
    {Appended([k \in DOMAIN p |->
                 RelationshipInfo(file1.file_id, sheet1.name, p[k],
                                  file2.file_id, sheet2.name, p[k], "potential_join")],
              <<>>) :
        p \in Perms(CommonCols(sheet1, sheet2))}

\* for sheet2 in file2.get_sheet_names(), from the b-th sheet on
RECURSIVE Sheet2Loop(_, _, _, _)
Sheet2Loop(file1, sheet1, file2, b) ==
    IF b > Len(file2.sheets)
    THEN {Appended(<<>>, <<>>)}
    ELSE Then(ColumnLoop(file1, sheet1, file2, file2.sheets[b]),
              Sheet2Loop(file1, sheet1, file2, b + 1))

\* for sheet1 in file1.get_sheet_names(), from the a-th sheet on
RECURSIVE Sheet1Loop(_, _, _)
Sheet1Loop(file1, a, file2) ==
    IF a > Len(file1.sheets)
    THEN {Appended(<<>>, <<>>)}
    ELSE Then(Sheet2Loop(file1, file1.sheets[a], file2, 1),
              Sheet1Loop(file1, a + 1, file2))

\* the suggestion appended after the sheets of a file pair
PairSuggestion(file1, file2) ==
    <<"files '" \o file1.filename \o "' and '" \o file2.filename
        \o "' can be related by their common column names">>

\* a plausible slip: the suggestion is appended only for a pair that
\* shares a column
PairBodyOnlyWhenRelated(file1, file2) ==
    {IF run.relationships = <<>>
     THEN run
     ELSE Appended(run.relationships, PairSuggestion(file1, file2)) :
        run \in Sheet1Loop(file1, 1, file2)}

\* the body of the loop over file pairs
PairBody(file1, file2) ==
    Then(Sheet1Loop(file1, 1, file2), {Appended(<<>>, PairSuggestion(file1, file2))})

\* for file_id2 in file_ids[i+1:], from the j-th file on
RECURSIVE File2Loop(_, _, _)
File2Loop(coll, i, j) ==
    IF j > Len(coll)
    THEN {Appended(<<>>, <<>>)}
    ELSE Then(PairBody(coll[i], coll[j]), File2Loop(coll, i, j + 1))

\* the first file of the inner loop: file_ids[i+1:]
InnerStart(i) == i + 1

\* for i, file_id1 in enumerate(file_ids), from the i-th file on
RECURSIVE File1Loop(_, _)
File1Loop(coll, i) ==
    IF i > Len(coll)
    THEN {Appended(<<>>, <<>>)}
    ELSE Then(File2Loop(coll, i, InnerStart(i)), File1Loop(coll, i + 1))

\* the suggestion of an analysis that found no relationship
FallbackSuggestion == "no obvious related columns found, specify the join conditions manually"

\* if not relationships: suggestions.append(...)
Fallback(relationships) ==
    IF relationships = <<>> THEN <<FallbackSuggestion>> ELSE <<>>

\* the MultiFileAnalysisResult values analyze_multifile can build from a
\* collection
AnalysisResults(coll) ==
    {[file_schemas |-> FileSchemas(coll),
      relationships |-> run.relationships,
      suggestions |-> run.suggestions \o Fallback(run.relationships)] :
        run \in File1Loop(coll, 1)}

\* the except clause of analyze_multifile
AnalyzeExcept(e) == Thrown(HTTPException(500, "analysis failed: " \o StrExc(e)))

(* ------------------------- the request lifecycle ----------------------- *)

NotLoaded == LoadOutcome(None, <<>>, None, <<>>)

\* the response leaves the handler
Finish(resp, lfc, exc, ops, res, sch) ==
    /\ pc' = "done"
    /\ response' = resp
    /\ calls' = lfc.calls \o (IF ops = <<>> THEN <<>> ELSE <<"Executor.execute">>)
    /\ resolved' = lfc.rows
    /\ raised' = exc
    /\ handed' = ops
    /\ result' = res
    /\ schemas' = sch
    /\ UNCHANGED <<db, request>>

Condition == [left_column |-> "id", right_column |-> "id", operator |-> "="]

JoinRequests ==
    {[op |-> "join", left_file_id |-> l, left_table |-> "s1", right_file_id |-> r,
      right_table |-> "s1", join_type |-> "inner", conditions |-> c,
      output_sheet_name |-> "out"] :
        l \in RawIds, r \in RawIds, c \in SeqsUpTo({Condition}, MaxConds)}

MergeRequests ==
    {[op |-> "merge", file_ids |-> ids, tables |-> t, merge_type |-> "vertical",
      output_sheet_name |-> "out"] :
        ids \in SeqsUpTo(RawIds, MaxIds), t \in SeqsUpTo({"s1"}, MaxIds)}

ReferenceRequests ==
    {[op |-> "reference", source_file_id |-> s, source_table |-> "s1",
      source_column |-> "id", target_file_id |-> t, target_table |-> "s1",
      target_column |-> "ref", reference_type |-> rt, output_sheet_name |-> o] :
        s \in RawIds, t \in RawIds, rt \in {"copy", "formula"},
        o \in {None, Some(""), Some("out")}}

AnalysisRequests ==
    {[op |-> "analyze", file_ids |-> ids, analysis_type |-> "schema"] :
        ids \in SeqsUpTo(RawIds, MaxIds)}

Requests == AnalysisRequests \cup JoinRequests \cup MergeRequests \cup ReferenceRequests

Init ==
    /\ db \in [FileIds -> Users]
    /\ pc = "idle"
    /\ request = [op |-> "none"]
    /\ response = [kind |-> "none"]
    /\ calls = <<>>
    /\ resolved = None
    /\ raised = None
    /\ handed = <<>>
    /\ result = None
    /\ schemas = None

\* a request arrives, already validated against its request model
Receive ==
    /\ pc = "idle"
    /\ \E req \in Requests : request' = req
    /\ pc' = "received"
    /\ UNCHANGED <<db, response, calls, resolved, raised, handed, result, schemas>>

\* POST /multifile/join
join_files ==
    /\ pc = "received"
    /\ request.op = "join"
    /\ \E lfc \in Unread(load_file_collection(<<request.left_file_id, request.right_file_id>>,
                                              current_user)) :
         IF lfc.exc # None
         THEN Finish(JoinExcept(lfc.exc[1]), lfc, lfc.exc, <<>>, None, None)
         ELSE LET join_op == JoinOperation(request)
              IN  \E eo \in Executor_execute(<<join_op>>) :
                    IF eo.exc # None
                    THEN Finish(JoinExcept(eo.exc[1]), lfc, eo.exc, <<join_op>>, None, None)
                    ELSE Finish(JoinNormalize(request, eo.result[1]), lfc, None,
                                <<join_op>>, eo.result, None)

\* POST /multifile/merge
merge_files ==
    /\ pc = "received"
    /\ request.op = "merge"
    /\ LET invalid == MergeValidate(request)
       IN  IF invalid # None
           THEN Finish(MergeInvalid(invalid[1]), NotLoaded, None, <<>>, None, None)
           ELSE \E lfc \in Unread(load_file_collection(request.file_ids, current_user)) :
                  IF lfc.exc # None
                  THEN Finish(MergeExcept(lfc.exc[1]), lfc, lfc.exc, <<>>, None, None)
                  ELSE LET merge_op == MergeOperation(request)
                       IN  \E eo \in Executor_execute(<<merge_op>>) :
                             IF eo.exc # None
                             THEN Finish(MergeExcept(eo.exc[1]), lfc, eo.exc, <<merge_op>>,
                                         None, None)
                             ELSE Finish(MergeNormalize(request, eo.result[1]), lfc, None,
                                         <<merge_op>>, eo.result, None)

\* POST /multifile/reference
cross_file_reference ==
    /\ pc = "received"
    /\ request.op = "reference"
    /\ \E lfc \in Unread(load_file_collection(<<request.source_file_id, request.target_file_id>>,
                                              current_user)) :
         IF lfc.exc # None
         THEN Finish(ReferenceExcept(lfc.exc[1]), lfc, lfc.exc, <<>>, None, None)
         ELSE LET reference_op == CrossFileReferenceOperation(request)
              IN  \E eo \in Executor_execute(<<reference_op>>) :
                    IF eo.exc # None
                    THEN Finish(ReferenceExcept(eo.exc[1]), lfc, eo.exc, <<reference_op>>,
                                None, None)
                    ELSE Finish(ReferenceNormalize(request, eo.result[1]), lfc, None,
                                <<reference_op>>, eo.result, None)

\* POST /multifile/analyze
analyze_multifile ==
    /\ pc = "received"
    /\ request.op = "analyze"
    /\ \E lfc \in load_file_collection(request.file_ids, current_user) :
         IF lfc.exc # None
         THEN Finish(AnalyzeExcept(lfc.exc[1]), lfc, lfc.exc, <<>>, None, None)
         ELSE \E analysis \in AnalysisResults(lfc.coll) :
                Finish(ApiResponse(None, analysis, None), lfc, None, <<>>, None,
                       Some(lfc.coll))

Next ==
    \/ Receive
    \/ analyze_multifile
    \/ join_files
    \/ merge_files
    \/ cross_file_reference

Spec == Init /\ [][Next]_vars

(* ------------------------------ properties ----------------------------- *)

Done == pc = "done"

\* the raw file identifiers of the request, in the order the handler passes
\* them to load_file_collection
RequestIds ==
    CASE request.op = "join" -> <<request.left_file_id, request.right_file_id>>
      [] request.op = "reference" -> <<request.source_file_id, request.target_file_id>>
      [] request.op \in {"analyze", "merge"} -> request.file_ids
      [] OTHER -> <<>>

HasMalformedId == \E i \in DOMAIN RequestIds : ~WellFormed(RequestIds[i])

\* the positions, among the rows the storage returned, of the files the
\* caller does not own
Offenders ==
    IF resolved = None THEN {}
    ELSE {i \in DOMAIN resolved[1] : resolved[1][i].user_id # current_user}

Failed == response.kind = "thrown" \/ (response.kind = "envelope" /\ response.data.success = FALSE)

Succeeded == response.kind = "envelope" /\ response.data.success = TRUE

LoaderCalled == "load_tables_from_files" \in Range(calls)
EngineCalled == "Executor.execute" \in Range(calls)

\* C1: in every operation a request with a malformed file identifier ends as
\* a thrown error of status 400, and a request that resolves a file the
\* caller does not own ends as a thrown error of status 403; never as an
\* envelope, never with status 500.
C1_ProtocolErrorsAreThrown ==
    Done =>
      /\ HasMalformedId =>
           response.kind = "thrown" /\ response.status_code = 400
      /\ (~HasMalformedId /\ Offenders # {}) =>
           response.kind = "thrown" /\ response.status_code = 403

\* C2: a join request that resolves a file the caller does not own fails
\* with the 403 that names the first such file in the order the storage
\* returned the rows, and the request calls neither load_tables_from_files
\* nor Executor.execute.
C2_JoinOwnershipBeforeLoad ==
    (Done /\ request.op = "join" /\ Offenders # {}) =>
      LET first == CHOOSE i \in Offenders : \A j \in Offenders : i <= j
      IN  /\ raised = Some(HTTPException(403, NoAccessDetail(resolved[1][first].filename)))
          /\ Failed
          /\ ~LoaderCalled
          /\ ~EngineCalled
          /\ handed = <<>>
          /\ result = None

\* C2 happens: a join whose two files both belong to another user
C2_Witness ==
    /\ Done
    /\ request.op = "join"
    /\ Cardinality(Offenders) = 2
    /\ raised # None
    /\ raised[1].status_code = 403

\* C3: a merge request whose file_ids and tables differ in length returns an
\* envelope with success=false and the length-mismatch message, and the
\* request calls neither the access guard, the loader nor the engine.
C3_MergeLengthMismatch ==
    (Done /\ request.op = "merge" /\ Len(request.file_ids) # Len(request.tables)) =>
      /\ response.kind = "envelope"
      /\ response.data.success = FALSE
      /\ response.data.error = Some(LengthMismatchMessage)
      /\ calls = <<>>
      /\ resolved = None
      /\ handed = <<>>
      /\ result = None

\* C3 happens: three file ids, two tables
C3_Witness ==
    /\ Done
    /\ request.op = "merge"
    /\ Len(request.file_ids) = 3
    /\ Len(request.tables) = 2
    /\ response.data.error = Some(LengthMismatchMessage)

\* C4 as stated: a merge request with a single file id, whatever its tables
\* list, returns success=false with the minimum-file-count message.
C4_SingleFileAnyTables ==
    (Done /\ request.op = "merge" /\ Len(request.file_ids) = 1) =>
      /\ response.kind = "envelope"
      /\ response.data.success = FALSE
      /\ response.data.error = Some(MinimumFilesMessage)

\* C4 amended: a merge request with a single file id returns success=false;
\* the message is the minimum-file-count message when tables has one entry
\* too, and the length-mismatch message when it has any other length.  No
\* collaborator is called.
C4_SingleFileMessage ==
    (Done /\ request.op = "merge" /\ Len(request.file_ids) = 1) =>
      /\ response.kind = "envelope"
      /\ response.data.success = FALSE
      /\ response.data.error =
           IF Len(request.tables) = 1
           THEN Some(MinimumFilesMessage)
           ELSE Some(LengthMismatchMessage)
      /\ calls = <<>>

\* C4 happens: one file id, one table, an owned file
C4_Witness ==
    /\ Done
    /\ request.op = "merge"
    /\ request.file_ids = <<"f1">>
    /\ Len(request.tables) = 1
    /\ db["f1"] = current_user
    /\ response.data.error = Some(MinimumFilesMessage)

\* an analysis that returned its result
Analyzed == Done /\ request.op = "analyze" /\ response.kind = "envelope"

\* the relationship records the schema mapping calls for: one per file pair
\* (i before j in iteration order), sheet pair and column name that both
\* sheets hold
ExpectedRelationships(coll) ==
    UNION { UNION { UNION {
        { RelationshipInfo(coll[ij[1]].file_id, coll[ij[1]].sheets[a].name, c,
                           coll[ij[2]].file_id, coll[ij[2]].sheets[b].name, c,
                           "potential_join") :
            c \in {x \in Range(coll[ij[1]].sheets[a].columns) :
                     \E k \in DOMAIN coll[ij[2]].sheets[b].columns :
                        coll[ij[2]].sheets[b].columns[k] = x} } :
        b \in DOMAIN coll[ij[2]].sheets } :
        a \in DOMAIN coll[ij[1]].sheets } :
        ij \in {q \in (DOMAIN coll) \X (DOMAIN coll) : q[1] < q[2]} }

\* C5: analysis returns exactly one relationship record per (file pair,
\* sheet pair, shared column name), with source and target as the pair gives
\* them and kind potential_join, and no other record.
C5_RelationshipsExact ==
    Analyzed =>
      LET rels == response.data.relationships
          expected == ExpectedRelationships(schemas[1])
      IN  /\ Range(rels) = expected
          /\ Len(rels) = Cardinality(expected)

\* C5 happens: one column name shared by two sheet pairs of one file pair,
\* and two names shared inside one sheet pair
C5_Witness ==
    /\ Analyzed
    /\ Len(schemas[1]) = 2
    /\ \E k, l \in DOMAIN response.data.relationships :
         LET r1 == response.data.relationships[k]
             r2 == response.data.relationships[l]
         IN  /\ r1.source_column = r2.source_column
             /\ r1.source_sheet # r2.source_sheet
    /\ \E k, l \in DOMAIN response.data.relationships :
         LET r1 == response.data.relationships[k]
             r2 == response.data.relationships[l]
         IN  /\ r1.source_column # r2.source_column
             /\ r1.source_sheet = r2.source_sheet
             /\ r1.target_sheet = r2.target_sheet

\* the file pairs of n files in order: (1,2), (1,3), .., (2,3), ..
OrderedPairs(n) ==
    LET P == {q \in (1..n) \X (1..n) : q[1] < q[2]}
        Before(q, p) == q[1] < p[1] \/ (q[1] = p[1] /\ q[2] < p[2])
    IN  [k \in 1..Cardinality(P) |->
            CHOOSE p \in P : Cardinality({q \in P : Before(q, p)}) = k - 1]

\* C6: the suggestions are one per-pair message for each pair of distinct
\* files of the schema mapping, in pair order, followed by the fallback
\* message exactly when no relationship was found; so they are the fallback
\* alone for 0 or 1 files, and N(N-1)/2 messages plus the fallback for N >= 2
\* files that share no column.
C6_SuggestionsExact ==
    Analyzed =>
      LET coll == schemas[1]
          n == Len(coll)
          pairs == OrderedPairs(n)
          rels == response.data.relationships
          sugg == response.data.suggestions
      IN  /\ Len(pairs) = (n * (n - 1)) \div 2
          /\ Len(sugg) = Len(pairs) + (IF rels = <<>> THEN 1 ELSE 0)
          /\ \A k \in DOMAIN pairs :
               sugg[k] = PairSuggestion(coll[pairs[k][1]], coll[pairs[k][2]])[1]
          /\ rels = <<>> => sugg[Len(sugg)] = FallbackSuggestion
          /\ n <= 1 => sugg = <<FallbackSuggestion>>

\* C6 happens: three files without a shared column, three messages and the
\* fallback
C6_Witness ==
    /\ Analyzed
    /\ Len(schemas[1]) = 3
    /\ response.data.relationships = <<>>
    /\ Len(response.data.suggestions) = 4

\* the messages of a non-empty error list, joined from the back
RECURSIVE JoinedErrors(_)
JoinedErrors(errors) ==
    IF Len(errors) = 1 THEN errors[1]
    ELSE JoinedErrors(SubSeq(errors, 1, Len(errors) - 1)) \o "; " \o errors[Len(errors)]

\* C7: in join, merge and reference, an ExecutionResult with at least one
\* error gives an envelope with success=false whose error is the engine's
\* messages in order joined with "; ", whatever new_sheets holds; success=true
\* is returned only for an ExecutionResult without errors.
C7_EngineErrorsFail ==
    (Done /\ request.op \in {"join", "merge", "reference"}) =>
      /\ (result # None /\ result[1].errors # <<>>) =>
           /\ response.kind = "envelope"
           /\ response.data.success = FALSE
           /\ response.data.error = Some(JoinedErrors(result[1].errors))
      /\ Succeeded => (result # None /\ result[1].errors = <<>>)

\* C7 happens: a merge whose engine result holds two errors and the output
\* table
C7_Witness ==
    /\ Done
    /\ request.op = "merge"
    /\ result # None
    /\ Len(result[1].errors) = 2
    /\ request.file_ids[1] \in DOMAIN result[1].new_sheets
    /\ request.output_sheet_name \in DOMAIN result[1].new_sheets[request.file_ids[1]]
    /\ response.data.success = FALSE

\* the file id under which join and merge look for their output
DefaultOutputFile ==
    IF request.op = "join" THEN request.left_file_id ELSE request.file_ids[1]

OutputKeyMissing ==
    \/ DefaultOutputFile \notin DOMAIN result[1].new_sheets
    \/ request.output_sheet_name \notin DOMAIN result[1].new_sheets[DefaultOutputFile]

\* C8: when the engine returns no error and new_sheets lacks the output key
\* (the left file id of a join, the first file id of a merge, or the output
\* sheet name under it), the response is success=true with output_file_id the
\* default file id and row_count = column_count = 0.
C8_MissingOutputIsEmpty ==
    (/\ Done
     /\ request.op \in {"join", "merge"}
     /\ result # None
     /\ result[1].errors = <<>>
     /\ OutputKeyMissing) =>
      /\ response.kind = "envelope"
      /\ response.code = None
      /\ response.data.success = TRUE
      /\ response.data.output_file_id = Some(DefaultOutputFile)
      /\ response.data.output_sheet_name = Some(request.output_sheet_name)
      /\ response.data.row_count = Some(0)
      /\ response.data.column_count = Some(0)
      /\ response.data.error = None

\* C8 happens: a join whose result holds the left file id without the output
\* sheet
C8_Witness ==
    /\ Done
    /\ request.op = "join"
    /\ result # None
    /\ result[1].errors = <<>>
    /\ request.left_file_id \in DOMAIN result[1].new_sheets
    /\ request.output_sheet_name \notin DOMAIN result[1].new_sheets[request.left_file_id]
    /\ response.data.row_count = Some(0)

\* C9: every Join descriptor handed to the engine has at least one
\* condition.
C9_JoinHasCondition ==
    \A k \in DOMAIN handed :
        handed[k].kind = "join" => Len(handed[k].conditions) >= 1

\* C10: the descriptor of a cross-reference request has output
\* NewSheet{name} exactly when the request gives an output sheet name (any
\* supplied string), and InPlace exactly when it gives none.
C10_OutputFollowsRequest ==
    \A k \in DOMAIN handed :
        handed[k].kind = "reference" =>
          /\ request.output_sheet_name # None =>
               handed[k].output = NewSheet(request.output_sheet_name[1])
          /\ request.output_sheet_name = None => handed[k].output = InPlace

====
